---- MODULE Spec2Model ----
(***************************************************************************)
(* grafana-exim (src/src/main.rs): one run of the program exports          *)
(* dashboards, folders and datasources of a source Grafana into snapshot   *)
(* files and then imports the snapshot files into a destination Grafana.   *)
(*                                                                         *)
(* The main control flow is `pc`; every tokio task spawned by the run is   *)
(* a separate process of the model, stepping at the completion of its      *)
(* network request.  A panic of the main control flow (an unwrap on Err    *)
(* or None) ends the process: the tokio runtime shuts down and drops the   *)
(* tasks that are still waiting.                                           *)
(*                                                                         *)
(* uids are modelled as the numbers 1..MaxUid.  A JSON object is a         *)
(* function from its keys to its values.  The file system is modelled as   *)
(* writable (File::create and create_dir succeed).                         *)
(***************************************************************************)
EXTENDS Naturals, Sequences, FiniteSets

MaxUid == 2
MaxRuns == 2
\* A program that runs once meets a source of at most MaxEntities entities, one that runs
\* MaxRuns times a source of at most MaxRepeatEntities; at first the destination has only
\* folders and datasources with a uid up to MaxDstUid (and only such as the source has too:
\* the program never asks for any other).
MaxEntities == 3
MaxRepeatEntities == 2
MaxDstUid == 1

Uids == 1..MaxUid
Kinds == {"dashboards", "folders", "datasources"}
FetchKinds == {"dashboards", "folders"}

VARIABLES
    runs,      \* number of times the program is going to be run
    src,       \* the source: src[kind] is the set of uids of its entities of the kind
    run,       \* number of program runs started so far
    pc,        \* position of the main control flow in main()
    failure,   \* why the main control flow panicked in this run ("none" if not)
    files,     \* snapshot store: files[kind] maps the uid in a file name to the document in the file
    fetch,     \* export tasks of this run: fetch[kind][uid]
    handles,   \* the JoinHandles pushed and not yet awaited: <<kind, uid>>, in push order
    listed,    \* outcome of each list request to the source in this run
    todo,      \* paths returned by list_dir not yet visited by the import loop
    sent,      \* requests of the import tasks of this run: sent[kind][uid], in issue order
    dsList,    \* GET /api/datasources requests sent to the destination in this run
    dstUids,   \* dst_datasource_uids collected in this run
    dst,       \* the destination: its folders and its datasources (number of entries per uid)
    dsHist,    \* per datasource uid, the finished datasource writes of all runs so far
    got,       \* what the source answered in this run: got[kind] maps a uid to the document received
    exported   \* the answers and the snapshot store when an export returned: .last of the
               \* latest export that returned, .prev of the export of the run before this one

vars == <<runs, src, run, pc, failure, files, fetch, handles, listed, todo, sent, dsList, dstUids, dst, dsHist, got, exported>>

(***************************************************************************)
(* Documents                                                               *)
(***************************************************************************)
Has(doc, key) == key \in DOMAIN doc

Remove(doc, key) == [k \in DOMAIN doc \ {key} |-> doc[k]]

Insert(doc, key, val) == [k \in DOMAIN doc \cup {key} |-> IF k = key THEN val ELSE doc[k]]

\* Bodies GET /api/folders/{uid} of the source may answer with (JSON objects).
FolderResponses(u) ==
    { [uid |-> u, id |-> 7, title |-> "X", overwrite |-> FALSE],
      [id |-> 7, title |-> "X"] }

\* Bodies GET /api/dashboards/uid/{uid} of the source may answer with (JSON objects).
\* Dashboard u lives in folder u.
DashboardResponses(u) ==
    { [dashboard |-> [uid |-> u, id |-> 42, title |-> "T"], meta |-> [folderUid |-> u, slug |-> "s"],
       folderUid |-> 0, overwrite |-> FALSE],
      [dashboard |-> [id |-> 42, title |-> "T"], meta |-> [folderUid |-> u, slug |-> "s"]],
      [dashboard |-> [uid |-> u, id |-> 42, title |-> "T"]],
      [dashboard |-> [uid |-> u, id |-> 42, title |-> "T"], meta |-> [slug |-> "s"]],
      [meta |-> [folderUid |-> u, slug |-> "s"]] }

\* An element of the array GET /api/datasources of the source answers with.
DatasourceItem(u) == [uid |-> u, id |-> 3, orgId |-> 1, name |-> "ds"]

\* TransformFolder without folder_json.remove("id")
TransformFolder_KeepId(doc) == Insert(doc, "overwrite", TRUE)

\* folder_json.remove("id"); folder_json.insert("overwrite", true)
TransformFolder(doc) == Insert(Remove(doc, "id"), "overwrite", TRUE)

\* The accesses of the dashboard task that panic: dashboard_json["meta"], .as_str().unwrap(),
\* dashboard_json["dashboard"].
DashboardWellFormed(doc) ==
    /\ Has(doc, "meta")
    /\ Has(doc.meta, "folderUid")
    /\ Has(doc, "dashboard")

TransformDashboard(doc) ==
    LET stripped == Insert(doc, "dashboard", Remove(doc.dashboard, "id"))
        nometa == Remove(stripped, "meta")
    IN  Insert(Insert(nometa, "folderUid", doc.meta.folderUid), "overwrite", TRUE)

\* obj.remove("id"); obj.remove("orgId")
TransformDatasource(doc) == Remove(Remove(doc, "id"), "orgId")

\* Save into a directory created anew
Save_Fresh(store, u, doc) == [x \in {u} |-> doc]

\* Save opening an existing file for appending
Save_Append(store, u, doc) ==
    [x \in DOMAIN store \cup {u} |->
        IF x = u THEN (IF u \in DOMAIN store THEN Insert(doc, "appended", TRUE) ELSE doc)
        ELSE store[x]]

\* File::create + to_writer: the file named uid now holds doc, whatever it held.
Save(store, u, doc) == [x \in DOMAIN store \cup {u} |-> IF x = u THEN doc ELSE store[x]]

NoFiles == [x \in {} |-> x]

RECURSIVE Ascending(_)
Ascending(S) ==
    IF S = {} THEN << >>
    ELSE LET m == CHOOSE x \in S : \A y \in S : x <= y
         IN  <<m>> \o Ascending(S \ {m})

HandlesOf(kind, S) == [i \in 1..Cardinality(S) |-> <<kind, Ascending(S)[i]>>]

(***************************************************************************)
(* Initial state and the start of a run                                    *)
(***************************************************************************)
NoFetch == [k \in FetchKinds |-> [u \in Uids |-> "none"]]
NoSent == [k \in Kinds |-> [u \in Uids |-> << >>]]
NoListed == [k \in Kinds |-> "pending"]
NoGot == [k \in Kinds |-> NoFiles]
NoExport == [run |-> 0, got |-> NoGot, files |-> NoGot]

Size(s) == Cardinality(s["dashboards"]) + Cardinality(s["folders"]) + Cardinality(s["datasources"])

Sources(n) == {s \in [Kinds -> SUBSET Uids] : Size(s) <= n}

InitWith(r, n) ==
    /\ runs = r
    /\ src \in Sources(n)
    /\ run = 0
    /\ pc = "idle"
    /\ failure = "none"
    /\ files = [k \in Kinds |-> NoFiles]
    /\ fetch = NoFetch
    /\ handles = << >>
    /\ listed = NoListed
    /\ todo = {}
    /\ sent = NoSent
    /\ dsList = << >>
    /\ dstUids = {}
    /\ dst \in [folders : SUBSET (src["folders"] \cap 1..MaxDstUid),
                 datasources : {c \in [Uids -> {0, 1}] :
                                  \A u \in Uids : c[u] = 1 => u \in src["datasources"] \cap 1..MaxDstUid}]
    /\ dsHist = [u \in Uids |-> << >>]
    /\ got = NoGot
    /\ exported = [last |-> NoExport, prev |-> NoExport]

Init == InitWith(1, MaxEntities)

InitRepeat == InitWith(MaxRuns, MaxRepeatEntities)

\* main(): a new process; nothing but the files and the destination survives the last one.
StartRun ==
    /\ pc = "idle"
    /\ run < runs
    /\ run' = run + 1
    /\ pc' = "exp_dash"
    /\ failure' = "none"
    /\ fetch' = NoFetch
    /\ handles' = << >>
    /\ listed' = NoListed
    /\ todo' = {}
    /\ sent' = NoSent
    /\ dsList' = << >>
    /\ dstUids' = {}
    /\ got' = NoGot
    /\ exported' = [exported EXCEPT !.prev = IF exported.last.run = run THEN exported.last ELSE NoExport]
    /\ UNCHANGED <<runs, src, files, dst, dsHist>>

Panic(why) ==
    /\ pc' = "panicked"
    /\ failure' = why

(***************************************************************************)
(* Export                                                                  *)
(***************************************************************************)
\* ListedUids taking the source's entities from whatever body arrived
ListedUids_IgnoreBody(kind, outcome) == IF outcome = "transport_error" THEN {} ELSE src[kind]

\* The uids taken from the answer to a list request: Err(_) => Vec::new(), and
\* .ok().and_then(as_array).unwrap_or_default() of a body that is no JSON array.
ListedUids(kind, outcome) == IF outcome = "array" THEN src[kind] ELSE {}

\* The list request of export_dashboards for a kind, and the spawn loop after it.
ExportList(kind, at, next) ==
    /\ pc = at
    /\ \/ \E outcome \in {"transport_error", "not_array", "array"} :
            /\ listed' = [listed EXCEPT ![kind] = outcome]
            /\ fetch' = [fetch EXCEPT ![kind] =
                           [u \in Uids |-> IF u \in ListedUids(kind, outcome) THEN "fetching" ELSE "none"]]
            /\ handles' = handles \o HandlesOf(kind, ListedUids(kind, outcome))
            /\ pc' = next
            /\ UNCHANGED failure
       \/ \* an element of the array without a string "uid": d["uid"].as_str().unwrap()
          /\ listed' = [listed EXCEPT ![kind] = "array"]
          /\ Panic("list_uid")
          /\ UNCHANGED <<fetch, handles>>
    /\ UNCHANGED <<runs, src, run, files, todo, sent, dsList, dstUids, dst, dsHist, got, exported>>

ExportListDashboards == ExportList("dashboards", "exp_dash", "exp_fold")

ExportListFolders == ExportList("folders", "exp_fold", "exp_join")

\* The end of a fetch task whose request failed or whose body is not the object the task expects.
FetchFails(kind, u) ==
    /\ fetch[kind][u] = "fetching"
    /\ \E outcome \in {"failed", "skipped", "panicked"} :
          \* failed: transport error; skipped: the body is not JSON;
          \* panicked: the body is JSON but not an object (as_object_mut().unwrap())
          fetch' = [fetch EXCEPT ![kind][u] = outcome]
    /\ UNCHANGED <<runs, src, run, pc, failure, files, handles, listed, todo, sent, dsList, dstUids, dst, dsHist, got, exported>>

\* The dashboard task receiving a JSON object.
DashboardFetched(u) ==
    /\ fetch["dashboards"][u] = "fetching"
    /\ \E doc \in DashboardResponses(u) :
          IF DashboardWellFormed(doc)
          THEN /\ files' = [files EXCEPT !["dashboards"] = Save(@, u, TransformDashboard(doc))]
               /\ fetch' = [fetch EXCEPT !["dashboards"][u] = "saved"]
               /\ got' = [got EXCEPT !["dashboards"] = Save(@, u, doc)]
          ELSE /\ fetch' = [fetch EXCEPT !["dashboards"][u] = "panicked"]
               /\ UNCHANGED <<files, got>>
    /\ UNCHANGED <<runs, src, run, pc, failure, handles, listed, todo, sent, dsList, dstUids, dst, dsHist, exported>>

\* The folder task receiving a JSON object.
FolderFetched(u) ==
    /\ fetch["folders"][u] = "fetching"
    /\ \E doc \in FolderResponses(u) :
          /\ files' = [files EXCEPT !["folders"] = Save(@, u, TransformFolder(doc))]
          /\ fetch' = [fetch EXCEPT !["folders"][u] = "saved"]
          /\ got' = [got EXCEPT !["folders"] = Save(@, u, doc)]
    /\ UNCHANGED <<runs, src, run, pc, failure, handles, listed, todo, sent, dsList, dstUids, dst, dsHist, exported>>

\* FetchDone as soon as the task was spawned
FetchDone_Started(kind, u) == fetch[kind][u] # "none"

\* The export task has ended: its future has run to its end or panicked.
FetchDone(kind, u) == fetch[kind][u] \in {"saved", "failed", "skipped", "panicked"}

\* JoinError raised also by a task whose request failed
JoinError_OnFailure(state) == state \in {"panicked", "failed"}

\* handle.await is Err(JoinError) when the task has panicked
JoinError(state) == state = "panicked"

\* for handle in handles { handle.await.unwrap(); } of export_dashboards
ExportJoin ==
    /\ pc = "exp_join"
    /\ handles # << >>
    /\ LET h == Head(handles) IN
          /\ FetchDone(h[1], h[2])
          /\ IF JoinError(fetch[h[1]][h[2]])
             THEN Panic("join") /\ UNCHANGED handles
             ELSE handles' = Tail(handles) /\ UNCHANGED <<pc, failure>>
    /\ UNCHANGED <<runs, src, run, files, fetch, listed, todo, sent, dsList, dstUids, dst, dsHist, got, exported>>

\* ExportJoined without the loop over the handles
ExportJoined_Skipped == TRUE

\* for handle in handles { handle.await.unwrap(); } of export_dashboards has awaited every handle
ExportJoined == handles = << >>

\* export_datasources: one list request, then one file per element with a string uid.
ExportDatasources ==
    /\ pc = "exp_join"
    /\ ExportJoined
    /\ \E outcome \in {"transport_error", "not_array", "array"} :
          \* an element of the array that is no object or has no string "uid" is passed over
          LET items == ListedUids("datasources", outcome) IN
          /\ listed' = [listed EXCEPT !["datasources"] = outcome]
          /\ files' = [files EXCEPT !["datasources"] =
                         [x \in DOMAIN @ \cup items |->
                            IF x \in items THEN TransformDatasource(DatasourceItem(x)) ELSE @[x]]]
          /\ got' = [got EXCEPT !["datasources"] = [x \in items |-> DatasourceItem(x)]]
    /\ exported' = [exported EXCEPT !.last = [run |-> run, got |-> got', files |-> files']]
    /\ pc' = "imp_fold"
    /\ UNCHANGED <<runs, src, run, failure, fetch, handles, todo, sent, dsList, dstUids, dst, dsHist>>

ExportNext ==
    \/ ExportListDashboards
    \/ ExportListFolders
    \/ \E k \in FetchKinds, u \in Uids : FetchFails(k, u)
    \/ \E u \in Uids : DashboardFetched(u)
    \/ \E u \in Uids : FolderFetched(u)
    \/ ExportJoin
    \/ ExportDatasources

(***************************************************************************)
(* Import                                                                  *)
(***************************************************************************)
Get(ep) == [m |-> "GET", ep |-> ep, st |-> "pending"]

Write(method, ep, body) == [m |-> method, ep |-> ep, st |-> "pending", body |-> body]

\* Answered sending the request once more when it failed in transport
Answered_Retry(log, status) ==
    IF status = "transport_error"
    THEN Append([log EXCEPT ![Len(log)].st = status], log[Len(log)])
    ELSE [log EXCEPT ![Len(log)].st = status]

\* The last request of a task's log receiving its answer.
Answered(log, status) == [log EXCEPT ![Len(log)].st = status]

Pending(log) == log # << >> /\ log[Len(log)].st = "pending"

\* Finished once the task has been spawned
Finished_Started(log) == log # << >>

\* Finished only when the last request was accepted
Finished_OnlyOk(log) == log # << >> /\ log[Len(log)].st = "ok"

\* The task has had the answer to its last request (or the request failed) and has ended.
Finished(log) == log # << >> /\ log[Len(log)].st # "pending"

\* handle.await consumes the task's handle: the requests sent and the answer to the probe that
\* chose the write are kept, the answer to the write (which is only printed) is not
Joined(log) == [i \in 1..Len(log) |-> IF log[i].m = "GET" THEN log[i] ELSE [log[i] EXCEPT !.st = "joined"]]

\* AllJoined without the loop over the handles
AllJoined_Skipped == TRUE

\* for handle in handles.drain(..) { handle.await.unwrap(); } has awaited every handle pushed
AllJoined == handles = << >>

\* list_dir of import: read_dir(..).unwrap()
ImportListDir(kind, at, next) ==
    /\ pc = at
    /\ todo = {}
    /\ AllJoined
    /\ \/ /\ todo' = DOMAIN files[kind]
          /\ pc' = next
          /\ UNCHANGED failure
       \/ \* the directory cannot be read
          /\ Panic("list_dir")
          /\ UNCHANGED todo
    /\ IF at = "imp_fold"
       THEN \* export_dashboards has returned: its locals are gone
            fetch' = NoFetch /\ listed' = NoListed
       ELSE UNCHANGED <<fetch, listed>>
    /\ UNCHANGED <<runs, src, run, files, handles, sent, dsList, dstUids, dst, dsHist, got, exported>>

ImportListFolders == ImportListDir("folders", "imp_fold", "imp_fold_loop")

ImportListDashboards == ImportListDir("dashboards", "imp_fold_loop", "imp_dash_loop")

ImportListDatasources == ImportListDir("datasources", "imp_dash_loop", "imp_ds_get")

\* One turn of the loop over folder_paths: read the file, take its "uid", spawn the task,
\* which sends its probe.
ImportSpawnFolder ==
    /\ pc = "imp_fold_loop"
    /\ \E f \in todo :
          LET doc == files["folders"][f] IN
          /\ todo' = todo \ {f}
          /\ IF Has(doc, "uid")
             THEN /\ sent' = [sent EXCEPT !["folders"][f] = <<Get(<<"/api/folders", doc.uid>>)>>]
                  /\ handles' = Append(handles, <<"folders", f>>)
                  /\ UNCHANGED <<pc, failure>>
             ELSE \* json_data.get("uid").unwrap()
                  /\ Panic("snapshot_uid")
                  /\ UNCHANGED <<sent, handles>>
    /\ UNCHANGED <<runs, src, run, files, fetch, listed, dsList, dstUids, dst, dsHist, got, exported>>

\* FolderEndpoint without the assignment of the collection endpoint
FolderEndpoint_PerUid(folder_exist, uid) == <<"/api/folders", uid>>

\* FolderMethod updating whatever the probe answered
FolderMethod_AlwaysPut(folder_exist) == "PUT"

\* folder_exist and the method and endpoint chosen from it
FolderMethod(folder_exist) == IF folder_exist THEN "PUT" ELSE "POST"

FolderEndpoint(folder_exist, uid) ==
    IF folder_exist THEN <<"/api/folders", uid>> ELSE <<"/api/folders">>

\* The folder task receiving the answer to its probe and sending its write.
FolderProbed(f) ==
    LET log == sent["folders"][f]
        doc == files["folders"][f]
    IN  /\ Len(log) = 1
        /\ Pending(log)
        /\ \E status \in {"ok", "not_ok", "transport_error"} :
              /\ status = "ok" => doc.uid \in dst.folders
              /\ sent' = [sent EXCEPT !["folders"][f] =
                            Append(Answered(log, status),
                                   Write(FolderMethod(status = "ok"),
                                         FolderEndpoint(status = "ok", doc.uid), doc))]
        /\ UNCHANGED <<runs, src, run, pc, failure, files, fetch, handles, listed, todo, dsList, dstUids, dst, dsHist, got, exported>>

\* The folder task receiving the answer to its write.
FolderWritten(f) ==
    LET log == sent["folders"][f]
        doc == files["folders"][f]
    IN  /\ Len(log) = 2
        /\ Pending(log)
        /\ \E status \in {"ok", "not_ok", "transport_error"} :
              /\ sent' = [sent EXCEPT !["folders"][f] = Answered(log, status)]
              /\ dst' = IF status = "ok"
                        THEN [dst EXCEPT !.folders = @ \cup {doc.uid}]
                        ELSE dst
        /\ UNCHANGED <<runs, src, run, pc, failure, files, fetch, handles, listed, todo, dsList, dstUids, dsHist, got, exported>>

\* for handle in handles { handle.await.unwrap(); } of import: an import task never panics.
ImportJoin ==
    /\ pc \in {"imp_fold_loop", "imp_dash_loop", "imp_ds_loop"}
    /\ todo = {}
    /\ handles # << >>
    /\ Finished(sent[Head(handles)[1]][Head(handles)[2]])
    /\ handles' = Tail(handles)
    /\ sent' = [sent EXCEPT ![Head(handles)[1]][Head(handles)[2]] = Joined(@)]
    /\ UNCHANGED <<runs, src, run, pc, failure, files, fetch, listed, todo, dsList, dstUids, dst, dsHist, got, exported>>

\* DashboardRequest sending the document without its "overwrite" member
DashboardRequest_Stripped(doc) == Write("POST", <<"/api/dashboards/db">>, Remove(doc, "overwrite"))

\* DashboardRequest sent with the method the folder and datasource updates use
DashboardRequest_Put(doc) == Write("PUT", <<"/api/dashboards/db">>, doc)

\* client.post(&endpoint).json(&json_data)
DashboardRequest(doc) == Write("POST", <<"/api/dashboards/db">>, doc)

\* One turn of the loop over dashboard_paths: the task posts the document.
ImportSpawnDashboard ==
    /\ pc = "imp_dash_loop"
    /\ \E f \in todo :
          LET doc == files["dashboards"][f] IN
          /\ todo' = todo \ {f}
          /\ IF Has(doc.dashboard, "uid")
             THEN /\ sent' = [sent EXCEPT !["dashboards"][f] = <<DashboardRequest(doc)>>]
                  /\ handles' = Append(handles, <<"dashboards", f>>)
                  /\ UNCHANGED <<pc, failure>>
             ELSE \* json_data["dashboard"].get("uid").unwrap()
                  /\ Panic("snapshot_uid")
                  /\ UNCHANGED <<sent, handles>>
    /\ UNCHANGED <<runs, src, run, files, fetch, listed, dsList, dstUids, dst, dsHist, got, exported>>

\* The dashboard task receiving the answer to its write.
DashboardWritten(f) ==
    LET log == sent["dashboards"][f] IN
    /\ Pending(log)
    /\ \E status \in {"ok", "not_ok", "transport_error"} :
          sent' = [sent EXCEPT !["dashboards"][f] = Answered(log, status)]
    /\ UNCHANGED <<runs, src, run, pc, failure, files, fetch, handles, listed, todo, dsList, dstUids, dst, dsHist, got, exported>>

\* The uids the destination lists: one element per datasource it has.
DstListing == {u \in Uids : dst.datasources[u] > 0}

\* CollectedUids dropping every element of the answer
CollectedUids_None(status) == {}

\* dst_datasource_uids: empty on Err(_) and on a body that is no array
CollectedUids(status) == IF status = "array" THEN DstListing ELSE {}

\* GET /api/datasources of import_datasources and the uids collected from the answer.
ImportGetDatasources ==
    /\ pc = "imp_ds_get"
    /\ \E status \in {"array", "not_array", "transport_error"} :
          /\ dsList' = Append(dsList, [m |-> "GET", ep |-> <<"/api/datasources">>, st |-> status])
          /\ dstUids' = CollectedUids(status)
    /\ pc' = "imp_ds_loop"
    /\ UNCHANGED <<runs, src, run, failure, files, fetch, handles, listed, todo, sent, dst, dsHist, got, exported>>

\* DatasourceMethod without the membership test
DatasourceMethod_AlwaysPost(uid, uids) == "POST"

DatasourceMethod(uid, uids) == IF uid \in uids THEN "PUT" ELSE "POST"

DatasourceEndpoint(uid, uids) ==
    IF uid \in uids THEN <<"/api/datasources/uid", uid>> ELSE <<"/api/datasources">>

\* One turn of the loop over datasource_paths: the task sends the write chosen from dst_datasource_uids.
ImportSpawnDatasource ==
    /\ pc = "imp_ds_loop"
    /\ \E f \in todo :
          LET doc == files["datasources"][f] IN
          /\ todo' = todo \ {f}
          /\ sent' = [sent EXCEPT !["datasources"][f] =
                        <<Write(DatasourceMethod(doc.uid, dstUids),
                                DatasourceEndpoint(doc.uid, dstUids), doc)>>]
          /\ handles' = Append(handles, <<"datasources", f>>)
    /\ UNCHANGED <<runs, src, run, pc, failure, files, fetch, listed, dsList, dstUids, dst, dsHist, got, exported>>

\* The datasource task receiving the answer to its write.
DatasourceWritten(f) ==
    LET log == sent["datasources"][f]
        req == log[Len(log)]
    IN  /\ Pending(log)
        /\ \E status \in {"ok", "not_ok", "transport_error"} :
              /\ sent' = [sent EXCEPT !["datasources"][f] = Answered(log, status)]
              /\ dst' = IF status = "ok" /\ req.m = "POST"
                        THEN [dst EXCEPT !.datasources[req.body.uid] = @ + 1]
                        ELSE dst
              /\ dsHist' = [dsHist EXCEPT ![req.body.uid] =
                              Append(@, [run |-> run, m |-> req.m, ok |-> (status = "ok"),
                                         listed |-> (dsList[Len(dsList)].st = "array")])]
        /\ UNCHANGED <<runs, src, run, pc, failure, files, fetch, handles, listed, todo, dsList, dstUids, got, exported>>

\* main() returns Ok(()).
Finish ==
    /\ pc = "imp_ds_loop"
    /\ todo = {}
    /\ AllJoined
    /\ pc' = "idle"
    /\ UNCHANGED <<runs, src, run, failure, files, fetch, handles, listed, todo, sent, dsList, dstUids, dst, dsHist, got, exported>>

\* The panic of main() unwinds: the runtime is dropped and with it every task still waiting.
Shutdown ==
    /\ pc = "panicked"
    /\ pc' = "idle"
    /\ fetch' = [k \in FetchKinds |-> [u \in Uids |->
                    IF fetch[k][u] = "fetching" THEN "cancelled" ELSE fetch[k][u]]]
    /\ sent' = [k \in Kinds |-> [u \in Uids |->
                    IF Pending(sent[k][u]) THEN Answered(sent[k][u], "cancelled") ELSE sent[k][u]]]
    /\ handles' = << >>
    /\ todo' = {}
    /\ UNCHANGED <<runs, src, run, failure, files, listed, dsList, dstUids, dst, dsHist, got, exported>>

ImportNext ==
    \/ ImportListFolders
    \/ ImportSpawnFolder
    \/ \E f \in Uids : FolderProbed(f)
    \/ \E f \in Uids : FolderWritten(f)
    \/ ImportJoin
    \/ ImportListDashboards
    \/ ImportSpawnDashboard
    \/ \E f \in Uids : DashboardWritten(f)
    \/ ImportListDatasources
    \/ ImportGetDatasources
    \/ ImportSpawnDatasource
    \/ \E f \in Uids : DatasourceWritten(f)
    \/ Finish

\* While the program is not running, an entity is deleted at the source instance.
SourceRemoves ==
    /\ pc = "idle"
    /\ run < runs
    /\ \E k \in Kinds : \E u \in src[k] : src' = [src EXCEPT ![k] = @ \ {u}]
    /\ UNCHANGED <<runs, run, pc, failure, files, fetch, handles, listed, todo, sent, dsList, dstUids, dst, dsHist, got, exported>>

\* What the process itself does: every step of main().
Program == ExportNext \/ ImportNext \/ Shutdown

Next ==
    \/ StartRun
    \/ SourceRemoves
    \/ Program

Spec == Init /\ [][Next]_vars

SpecRepeat == InitRepeat /\ [][Next]_vars

\* The tokio runtime runs every task that is ready, and each request ends within the client's
\* timeout of five seconds: a step of the process that stays possible is eventually taken.
SpecLive == Init /\ [][Next]_vars /\ WF_vars(Program)

(***************************************************************************)
(* Properties                                                              *)
(***************************************************************************)
FolderTaskFinished(log) ==
    /\ Len(log) = 2
    /\ \A i \in 1..2 : log[i].st \notin {"pending", "cancelled"}

\* C1: while import runs, a dashboard write (POST /api/dashboards/db) has been sent only if
\* every folder import task spawned in the run has finished, its probe and its write both
\* answered (or failed).
C1_FoldersBeforeDashboards ==
    \A d \in Uids :
        sent["dashboards"][d] # << >> =>
            \A f \in Uids : sent["folders"][f] # << >> => FolderTaskFinished(sent["folders"][f])

\* Two folder tasks have finished and a dashboard write is in flight.
C1_Witness ==
    /\ \A f \in Uids : FolderTaskFinished(sent["folders"][f])
    /\ \E d \in Uids : Pending(sent["dashboards"][d])

\* C2: a spawned task that panics or errors takes no sibling with it: when the join of export
\* meets a panicked task no other task is cancelled, and the control flow is past the join
\* only when every task of the phase has completed.
C2_TaskFailureIsolated ==
    /\ failure = "join" => \A k \in FetchKinds, u \in Uids : fetch[k][u] # "cancelled"
    /\ pc = "imp_fold" => \A k \in FetchKinds, u \in Uids : fetch[k][u] = "none" \/ FetchDone(k, u)

\* C3: a malformed answer to the fetch of one entity (a JSON body that is no object, a
\* dashboard without meta.folderUid or without dashboard) only skips that entity: the export
\* does not fail on it.
C3_MalformedEntitySkipped ==
    (\E k \in FetchKinds, u \in Uids : fetch[k][u] = "panicked") => failure # "join"

\* C4: fetches that fail with a transport error do not fail the export; when the export of the
\* first run (which starts without snapshot files) is through, every listed dashboard and
\* folder has completed, the saved ones have their file, and the failed ones have none.
C4_TransportErrorsIsolated ==
    /\ failure = "join" => \E k \in FetchKinds, u \in Uids : fetch[k][u] = "panicked"
    /\ (pc = "imp_fold" /\ run = 1) =>
          \A k \in FetchKinds : \A u \in ListedUids(k, listed[k]) :
             /\ fetch[k][u] \in {"saved", "failed", "skipped"}
             /\ fetch[k][u] = "saved" <=> u \in DOMAIN files[k]

\* The export is through; one dashboard fetch failed, the other dashboard and a folder are saved.
C4_Witness ==
    /\ pc = "imp_fold"
    /\ \E u, v \in Uids :
          /\ fetch["dashboards"][u] = "failed"
          /\ fetch["dashboards"][v] = "saved"
          /\ v \in DOMAIN files["dashboards"]
          /\ u \notin DOMAIN files["dashboards"]
    /\ \E f \in Uids : fetch["folders"][f] = "saved"

ListFailed(k) == listed[k] \in {"transport_error", "not_array"}

\* C5: a list request to the source that fails or is answered by a body that is no array
\* yields no entity of the kind: no fetch task, no file of the kind written (the first run
\* starts without files), and no failure of the export; the other kinds are still processed.
C5_FailedListingIsEmpty ==
    /\ \A k \in FetchKinds : ListFailed(k) => \A u \in Uids : fetch[k][u] = "none"
    /\ \A i \in 1..Len(handles) : handles[i][1] \in FetchKinds => ~ListFailed(handles[i][1])
    /\ \A k \in Kinds : (ListFailed(k) /\ run = 1) => files[k] = NoFiles
    /\ failure \in {"list_uid", "join"} => \E k \in Kinds : listed[k] = "array"

\* The dashboard list and the datasource list failed though the source has such entities;
\* a folder was still saved and the export is through.
C5_Witness ==
    /\ pc = "imp_fold"
    /\ listed["dashboards"] = "not_array" /\ src["dashboards"] # {}
    /\ listed["datasources"] = "transport_error" /\ src["datasources"] # {}
    /\ \E f \in Uids : fetch["folders"][f] = "saved" /\ f \in DOMAIN files["folders"]

\* C6: a folder import task first sends GET /api/folders/{uid} and then exactly one write:
\* PUT /api/folders/{uid} if and only if the probe was answered with status OK, else
\* (another status, a transport error) POST /api/folders.
C6_FolderUpsert ==
    \A f \in Uids :
        LET log == sent["folders"][f] IN
        log # << >> =>
            LET uid == files["folders"][f].uid IN
            /\ log[1].m = "GET" /\ log[1].ep = <<"/api/folders", uid>>
            /\ Len(log) <= 2
            /\ Finished(log) /\ log[Len(log)].st # "cancelled" => Len(log) = 2
            /\ Len(log) = 2 =>
                  /\ log[1].st \in {"ok", "not_ok", "transport_error"}
                  /\ log[1].st = "ok" =>
                        log[2].m = "PUT" /\ log[2].ep = <<"/api/folders", uid>>
                  /\ log[1].st # "ok" =>
                        log[2].m = "POST" /\ log[2].ep = <<"/api/folders">>

\* One folder was updated after a probe answered OK, another created after a probe that
\* failed in transport.
C6_Witness ==
    \E f, g \in Uids :
        /\ FolderTaskFinished(sent["folders"][f]) /\ FolderTaskFinished(sent["folders"][g])
        /\ sent["folders"][f][1].st = "ok" /\ sent["folders"][f][2].m = "PUT"
        /\ sent["folders"][g][1].st = "transport_error" /\ sent["folders"][g][2].m = "POST"

\* C7: import sends one GET /api/datasources, answered before any datasource write is sent;
\* each datasource is written with PUT /api/datasources/uid/{uid} if and only if its uid is
\* among the uids collected from that listing (which the destination then has), else with
\* POST /api/datasources; a listing that fails yields no uid, so every write is a POST.
C7_DatasourceUpsert ==
    /\ Len(dsList) <= 1
    /\ pc = "imp_ds_loop" => Len(dsList) = 1
    /\ dsList # << >> /\ dsList[1].st # "array" => dstUids = {}
    /\ \A f \in Uids :
          LET log == sent["datasources"][f] IN
          log # << >> =>
              LET uid == files["datasources"][f].uid IN
              /\ Len(dsList) = 1
              /\ Len(log) = 1
              /\ log[1].m = "PUT" <=> uid \in dstUids
              /\ log[1].m = "PUT" =>
                    /\ log[1].ep = <<"/api/datasources/uid", uid>>
                    /\ dsList[1].st = "array"
                    /\ dst.datasources[uid] > 0
              /\ log[1].m # "PUT" => log[1].m = "POST" /\ log[1].ep = <<"/api/datasources">>

\* After one listing, one datasource was sent with PUT and another with POST.
C7_Witness ==
    /\ Len(dsList) = 1 /\ dsList[1].st = "array"
    /\ \E f, g \in Uids :
          /\ sent["datasources"][f] # << >> /\ sent["datasources"][f][1].m = "PUT"
          /\ sent["datasources"][g] # << >> /\ sent["datasources"][g][1].m = "POST"

\* C8: the only request import sends for a dashboard snapshot is one POST /api/dashboards/db
\* (no probe, no PUT), and once the dashboard phase is through every dashboard snapshot has
\* had its POST.
C8_DashboardPostOnly ==
    /\ \A d \in Uids :
          LET log == sent["dashboards"][d] IN
          log # << >> =>
              /\ Len(log) = 1
              /\ log[1].m = "POST"
              /\ log[1].ep = <<"/api/dashboards/db">>
    /\ pc \in {"imp_ds_get", "imp_ds_loop"} =>
          \A d \in DOMAIN files["dashboards"] : Finished(sent["dashboards"][d])

\* The dashboard phase is through with two dashboards posted.
C8_Witness ==
    /\ pc = "imp_ds_get"
    /\ \A d \in Uids : d \in DOMAIN files["dashboards"] /\ Finished(sent["dashboards"][d])

AcceptedCreates(h) == Cardinality({i \in 1..Len(h) : h[i].m = "POST" /\ h[i].ok})

\* C9: when the destination had no datasource of a uid before the first run and, in the first
\* and in the second run, lists its datasources and accepts the write, then the write of the
\* first run is a POST (create), the write of the second run a PUT (update), and after the
\* second run the destination has exactly one datasource of the uid.  No run writes a
\* datasource twice.
C9_UpsertConverges ==
    \A u \in Uids :
        LET h == dsHist[u] IN
        /\ \A i, j \in 1..Len(h) : i < j => h[i].run < h[j].run
        /\ (/\ Len(h) >= 2
            /\ dst.datasources[u] = AcceptedCreates(h)
            /\ h[1].run = 1 /\ h[1].ok /\ h[1].listed
            /\ h[2].run = 2 /\ h[2].ok /\ h[2].listed)
           => /\ h[1].m = "POST"
              /\ h[2].m = "PUT"
              /\ Len(h) = 2 => dst.datasources[u] = 1

\* The second run has finished: one create, then one update, one datasource at the destination.
C9_Witness ==
    /\ run = 2 /\ pc = "idle" /\ failure = "none"
    /\ \E u \in Uids :
          /\ Len(dsHist[u]) = 2
          /\ dsHist[u][1] = [run |-> 1, m |-> "POST", ok |-> TRUE, listed |-> TRUE]
          /\ dsHist[u][2] = [run |-> 2, m |-> "PUT", ok |-> TRUE, listed |-> TRUE]
          /\ dst.datasources[u] = 1

\* C10: after any sequence of runs every snapshot file is import-ready: a folder has no id
\* and overwrite = true; a dashboard has no dashboard.id, no meta, the folderUid of the
\* fetched meta.folderUid (dashboard u is fetched with folder u) and overwrite = true; a
\* datasource has neither id nor orgId.
C10_SnapshotsImportReady ==
    /\ \A u \in DOMAIN files["folders"] :
          LET doc == files["folders"][u] IN
          ~Has(doc, "id") /\ Has(doc, "overwrite") /\ doc.overwrite = TRUE
    /\ \A u \in DOMAIN files["dashboards"] :
          LET doc == files["dashboards"][u] IN
          /\ ~Has(doc.dashboard, "id")
          /\ ~Has(doc, "meta")
          /\ Has(doc, "folderUid") /\ doc.folderUid = u
          /\ Has(doc, "overwrite") /\ doc.overwrite = TRUE
    /\ \A u \in DOMAIN files["datasources"] :
          LET doc == files["datasources"][u] IN
          ~Has(doc, "id") /\ ~Has(doc, "orgId")

\* The second export is through and the store holds a folder and a dashboard.
C10_Witness ==
    /\ run = 2 /\ pc = "imp_fold"
    /\ \E u \in Uids : fetch["folders"][u] = "saved" /\ u \in DOMAIN files["folders"]
    /\ \E u \in Uids : fetch["dashboards"][u] = "saved" /\ u \in DOMAIN files["dashboards"]

ImportPcs == {"imp_fold", "imp_fold_loop", "imp_dash_loop", "imp_ds_get", "imp_ds_loop"}

ExportPcs == {"exp_dash", "exp_fold", "exp_join"}

\* The write requests of a task's log.
Writes(log) == {i \in 1..Len(log) : log[i].m # "GET"}

\* C11: the body of every write request import has sent is the document of the snapshot
\* file it was read from, and no step taken while import runs changes a snapshot file.
C11_ImportKeepsDocuments ==
    /\ [](\A k \in Kinds : \A f \in Uids : \A i \in Writes(sent[k][f]) :
            f \in DOMAIN files[k] /\ sent[k][f][i].body = files[k][f])
    /\ [][(pc \in ImportPcs) => UNCHANGED files]_vars

\* a folder, a dashboard and a datasource document have each been sent as they are on file
C11_Witness ==
    /\ pc = "imp_ds_loop"
    /\ \A k \in Kinds : \E f \in DOMAIN files[k] :
          /\ Writes(sent[k][f]) # {}
          /\ \A i \in Writes(sent[k][f]) : sent[k][f][i].body = files[k][f]

\* C12: when an export has returned in which the source answered every request as it did
\* in the export of the run before, the snapshot store is what it was when that export had
\* returned.
C12_ExportIdempotent ==
    (/\ pc = "imp_fold"
     /\ exported.prev.run > 0
     /\ got = exported.prev.got)
        => files = exported.prev.files

\* a second export that has rewritten a dashboard file and one other file with what they held
C12_Witness ==
    /\ pc = "imp_fold"
    /\ run = 2
    /\ exported.prev.run = 1
    /\ got = exported.prev.got
    /\ files = exported.prev.files
    /\ DOMAIN got["dashboards"] # {}
    /\ DOMAIN got["folders"] \cup DOMAIN got["datasources"] # {}

\* C13: for a folder exported in this run, import sends at most one write; its body is the
\* document the source answered with, "id" removed and "overwrite" set to true, every other
\* member as it was; and while the destination has no folder of that uid the write is a
\* POST to /api/folders (a PUT is sent only for a folder the destination has).
C13_FolderRoundTrip ==
    \A f \in DOMAIN got["folders"] :
        LET doc == got["folders"][f]
            log == sent["folders"][f]
        IN  /\ Cardinality(Writes(log)) <= 1
            /\ \A i \in Writes(log) :
                  /\ DOMAIN log[i].body = (DOMAIN doc \ {"id"}) \cup {"overwrite"}
                  /\ log[i].body.overwrite = TRUE
                  /\ \A key \in DOMAIN doc \ {"id", "overwrite"} : log[i].body[key] = doc[key]
                  /\ doc.uid \notin dst.folders =>
                        log[i].m = "POST" /\ log[i].ep = <<"/api/folders">>
                  /\ log[i].m = "PUT" => doc.uid \in dst.folders

\* the source's {uid, id: 7, title: "X"} went to a destination without that folder as
\* POST /api/folders with {uid, title: "X", overwrite: true}, and was accepted
C13_Witness ==
    \E f \in DOMAIN got["folders"] :
        LET doc == got["folders"][f]
            log == sent["folders"][f]
        IN  /\ doc.id = 7 /\ doc.title = "X"
            /\ Len(log) = 2
            /\ log[1].st # "ok"
            /\ log[2].m = "POST" /\ log[2].ep = <<"/api/folders">> /\ log[2].st = "ok"
            /\ log[2].body = [uid |-> doc.uid, title |-> "X", overwrite |-> TRUE]
            /\ doc.uid \in dst.folders

\* C14: when export_dashboards has returned, every handle has been awaited, no export task
\* is still fetching and the datasource export has had its answer; and import has listed a
\* snapshot directory or sent a request to the destination only after that.
C14_ExportBeforeImport ==
    /\ pc = "imp_fold" =>
          /\ handles = << >>
          /\ \A k \in FetchKinds : \A u \in Uids : fetch[k][u] # "fetching"
          /\ listed["datasources"] # "pending"
    /\ (sent # NoSent \/ dsList # << >> \/ todo # {}) => pc \notin ExportPcs
    /\ pc \in ExportPcs => listed["datasources"] = "pending"

\* import has listed the folder snapshots after export wrote files of all three kinds
C14_Witness ==
    /\ pc = "imp_fold_loop"
    /\ todo # {}
    /\ \A k \in Kinds : DOMAIN got[k] # {}

\* C15: import never stops because a snapshot directory could not be read.
C15_UnreadableDirectoryIsEmpty == failure # "list_dir"

\* C16: a task of import sends at most one write request for its snapshot document, whatever
\* the answer, and an export task that has sent its get-entity request never sends another.
C16_NoRetry ==
    /\ [](\A k \in Kinds : \A f \in Uids : Cardinality(Writes(sent[k][f])) <= 1)
    /\ [][\A k \in FetchKinds : \A u \in Uids :
            fetch'[k][u] = "fetching" => fetch[k][u] \in {"none", "fetching"}]_vars

\* a dashboard write failed in transport, its task ended, and nothing was sent again
C16_Witness ==
    /\ pc = "imp_dash_loop"
    /\ todo = {}
    /\ \E f \in Uids :
          /\ Len(sent["dashboards"][f]) = 1
          /\ sent["dashboards"][f][1].st = "transport_error"

\* C17: a run that has started ends: main() returns or unwinds.
C17_EveryRunTerminates == (pc # "idle") ~> (pc = "idle")

\* a run has ended normally in which a folder probe and the datasource list request failed
\* in transport and the dashboards were still imported
C17_Witness ==
    /\ pc = "idle"
    /\ run = 1
    /\ failure = "none"
    /\ \E f \in Uids : sent["folders"][f] # << >> /\ sent["folders"][f][1].st = "transport_error"
    /\ \E f \in Uids : sent["dashboards"][f] # << >>
    /\ dsList # << >> /\ dsList[1].st = "transport_error"

\* C18: the folder list request has been answered only when no dashboard task is still
\* fetching, and the datasource list request only when no folder task is still fetching.
C18_ExportPhasesLinear ==
    /\ listed["folders"] # "pending" => \A u \in Uids : fetch["dashboards"][u] # "fetching"
    /\ listed["datasources"] # "pending" => \A u \in Uids : fetch["folders"][u] # "fetching"

\* C18, amended: the folder list request follows the dashboard list request, and the
\* datasource list request has been answered only when no dashboard task and no folder task
\* is still fetching.
C18_DatasourcesAfterAllTasks ==
    /\ listed["folders"] # "pending" => listed["dashboards"] # "pending"
    /\ listed["datasources"] # "pending" =>
          /\ listed["folders"] # "pending"
          /\ \A k \in FetchKinds : \A u \in Uids : fetch[k][u] # "fetching"

\* the datasources were listed after a dashboard task and a folder task had both saved
C18_Witness ==
    /\ pc = "imp_fold"
    /\ listed["datasources"] = "array"
    /\ \E u \in Uids : fetch["dashboards"][u] = "saved"
    /\ \E u \in Uids : fetch["folders"][u] = "saved"

\* The datasource snapshots whose write request is in flight.
DatasourcesInFlight == {f \in Uids : Pending(sent["datasources"][f])}

\* The datasource phase of import has started.
DatasourcePhase ==
    \/ pc \in {"imp_ds_get", "imp_ds_loop"}
    \/ dsList # << >>
    \/ \E f \in Uids : sent["datasources"][f] # << >>

\* C19: the datasource phase of import has started only when every dashboard task has
\* ended, and at most one datasource write request is in flight.
C19_DatasourcesSequential ==
    /\ DatasourcePhase => \A f \in Uids : ~Pending(sent["dashboards"][f])
    /\ Cardinality(DatasourcesInFlight) <= 1

\* C19, amended: the datasource phase of import has started only when every dashboard task
\* has ended, and when main() has returned no datasource write request is in flight.
C19_DatasourcesAfterDashboards ==
    /\ DatasourcePhase => \A f \in Uids : ~Pending(sent["dashboards"][f])
    /\ (pc = "idle" /\ failure = "none") => DatasourcesInFlight = {}

\* two datasource write requests are in flight together, after a dashboard task has ended
C19_Witness ==
    /\ Cardinality(DatasourcesInFlight) = 2
    /\ \E f \in Uids : Finished(sent["dashboards"][f])

\* C20: no step removes a snapshot file; a file the source has not answered for in this
\* run holds what it held; and when a run has returned normally, every snapshot file has
\* been sent to the destination as it is.
C20_ExportKeepsFiles ==
    /\ [][\A k \in Kinds : DOMAIN files[k] \subseteq DOMAIN files'[k]]_vars
    /\ [][\A k \in Kinds : \A u \in DOMAIN files[k] \ DOMAIN got'[k] :
            u \in DOMAIN files'[k] /\ files'[k][u] = files[k][u]]_vars
    /\ []((pc = "idle" /\ failure = "none" /\ run > 0) =>
            \A k \in Kinds : \A f \in DOMAIN files[k] :
                Writes(sent[k][f]) # {} /\ sent[k][f][Len(sent[k][f])].body = files[k][f])

\* the second run has returned; the file of an entity deleted at the source since the first
\* export is still what that export wrote, and the second import has sent it
C20_Witness ==
    /\ pc = "idle"
    /\ failure = "none"
    /\ run = 2
    /\ exported.prev.run = 1
    /\ \E k \in Kinds : \E u \in DOMAIN files[k] :
          /\ u \notin src[k]
          /\ u \in DOMAIN exported.prev.files[k]
          /\ files[k][u] = exported.prev.files[k][u]
          /\ Writes(sent[k][u]) # {}

====
